---- MODULE Spec2Model ----
\* A model of src/vector/layer.rs (Layer, FeatureIterator, FieldDefn): the safe
\* wrapper around the OGR layer handle.  The engine behind the handle is modelled
\* at the FFI boundary: a feature store, the two filters, the shared read cursor,
\* the layer's field schema and the heap of field descriptors.
EXTENDS Integers, Sequences, FiniteSets, TLC

VARIABLES
    store,      \* engine: the layer's features, in storage order
    spatial,    \* engine: installed spatial filter (a region) or NoFilter
    attr,       \* engine: installed attribute filter (a query string) or NoFilter
    cursor,     \* engine: read position, the number of stored features already passed
    schema,     \* engine: the layer definition, a sequence of field-descriptor handles
    flds,       \* engine: heap of field descriptors, handle -> descriptor
    iters,      \* wrapper: the FeatureIterator values alive, slot -> iterator
    fdefns,     \* wrapper: the FieldDefn values, slot -> wrapper
    usize_max,  \* build target: largest usize
    drains,     \* history: the last (at most two) sequences drained from features()
                \*          since the store or a filter last changed
    last        \* history: the last operation, its engine calls and what it returned

vars == <<store, spatial, attr, cursor, schema, flds, iters, fdefns, usize_max, drains, last>>

----------------------------------------------------------------------------
\* Bounds of the model

MaxFeatures == 2        \* features the store may hold
MaxIters == 2           \* FeatureIterator values alive at once
TwoPow63 == 4           \* 2^63 scaled down: u64 is 0..2*TwoPow63-1, i64 is -TwoPow63..TwoPow63-1
TwoPow32 == 2           \* 2^32 scaled down: usize::MAX is TwoPow32-1 on a 32-bit target
MaxHandles == 6         \* field descriptors the engine allocates
MaxFieldDefns == 2      \* FieldDefn wrappers created
MaxList == 2            \* longest name, value or field list passed in
MaxAttached == 2        \* fields attached to the layer one by one with add_to_layer

----------------------------------------------------------------------------
\* Values

None == [some |-> FALSE]
Some(v) == [some |-> TRUE, val |-> v]
NoFilter == None
NoIter == [kind |-> "none"]
Idle == [op |-> "idle"]

Ok(v) == [tag |-> "Ok", val |-> v]
OgrError(rv, name) == [tag |-> "OgrError", err |-> rv, method_name |-> name]
NullPointer(name) == [tag |-> "NullPointer", method_name |-> name]
FfiNulError == [tag |-> "FfiNulError"]
IsErr(r) == r.tag # "Ok"

OGRERR_NONE == 0
OGRERR_FAILURE == 6
OGRErrCodes == 0..9
FailCodes == {4, OGRERR_FAILURE}

Cells == 1..2
Regions == (SUBSET Cells) \ {{}}
Geoms == {{c} : c \in Cells}
FieldNames == {"a", "b"}
Values == {1, 2}
NoFields == [n \in FieldNames |-> None]

Min(a, b) == IF a <= b THEN a ELSE b
SeqsUpTo(S, n) == UNION {[1..k -> S] : k \in 0..n}
NameLists == SeqsUpTo(FieldNames, MaxList)
ValueLists == SeqsUpTo(Values, MaxList)

\* Query strings the caller may pass: two well-formed predicates, one the engine's
\* parser rejects, one with an embedded NUL.
GoodQueries == {"a = 1", "a = 2"}
BadQueries == {"a = = 1"}
NulQueries == {"a = 1<NUL>x"}
Queries == GoodQueries \cup BadQueries \cup NulQueries
HasNul(s) == s \in NulQueries \cup {"n<NUL>m"}
QueryValue(q) == IF q = "a = 1" THEN 1 ELSE 2

\* the bytes of s before its first NUL
UpToNul(s) == IF s = "a = 1<NUL>x" THEN "a = 1" ELSE IF s = "n<NUL>m" THEN "n" ELSE s

\* CString::new that cuts the string at the NUL, as a C string reader would
CStringTruncating(s) == Ok(UpToNul(s))

\* CString::new: fails on an interior NUL, otherwise the same bytes
CStringNew(s) == IF HasNul(s) THEN FfiNulError ELSE Ok(s)

----------------------------------------------------------------------------
\* The engine's reading of the store

Passes(f, sp, at) ==
    /\ sp = NoFilter \/ f.geom \cap sp.val # {}
    /\ at = NoFilter \/ f.fields["a"] = Some(QueryValue(at.val))

Visible(st, sp, at) == SelectSeq(st, LAMBDA f : Passes(f, sp, at))

\* OGR_L_GetNextFeature: index of the first feature after the cursor that passes
\* the filters, 0 (NULL) when none is left
NextIndex(st, cur, sp, at) ==
    LET ok == {j \in (cur + 1)..Len(st) : Passes(st[j], sp, at)}
    IN  IF ok = {} THEN 0 ELSE CHOOSE j \in ok : \A k \in ok : j <= k

\* fid as i64
AsI64(fid) == IF fid < TwoPow63 THEN fid ELSE fid - 2 * TwoPow63

\* OGR_L_GetFeature: the stored feature with that id, whatever the filters
Lookup(st, id) ==
    LET hit == {j \in 1..Len(st) : st[j].fid = id}
    IN  IF hit = {} THEN None ELSE Some(st[CHOOSE j \in hit : TRUE])

----------------------------------------------------------------------------
\* Borrows of the Layer value.  features() keeps &mut Layer for the iterator's
\* life, FeatureIterator::_with_layer keeps &Layer.

Live == {i \in 1..MaxIters : iters[i] # NoIter}
MutFree == Live = {}
SharedOk == \A i \in Live : iters[i].kind # "features"

KeepDrains ==
    drains' = IF store' = store /\ spatial' = spatial /\ attr' = attr THEN drains ELSE <<>>

----------------------------------------------------------------------------
\* FeatureIterator

\* OGR_L_GetFeatureCount without force: no cheap count (-1), the count of the
\* features that pass the filters, or the largest count a layer can report
CheapCounts(st, sp, at) == {-1, Len(Visible(st, sp, at)), TwoPow63 - 1}

\* the slot a new iterator takes
FreeSlot(i) == iters[i] = NoIter /\ \A j \in 1..(i - 1) : iters[j] # NoIter

\* the slot a new FieldDefn takes
FreeFieldDefnSlot(s) == fdefns[s].c_obj = 0 /\ \A j \in 1..(s - 1) : fdefns[j].c_obj # 0

\* Layer::try_feature_count on the engine's result rv
TryFeatureCountMutant(rv) == IF rv <= 0 THEN None ELSE Some(rv)

TryFeatureCount(rv) == IF rv < 0 THEN None ELSE Some(rv)

\* u64 -> usize, try_into().ok()
TryIntoUsize(n, umax) == IF n <= umax THEN Some(n) ELSE None

\* FeatureIterator::_with_layer: the iterator built on the engine's cheap count rv
WithLayer(kind, rv, umax, expect) ==
    LET c == TryFeatureCount(rv)
    IN  [kind |-> kind,
         size_hint |-> IF c.some THEN TryIntoUsize(c.val, umax) ELSE None,
         count |-> rv,
         expect |-> expect,
         yielded |-> <<>>,
         done |-> FALSE]

SizeHint(it) ==
    IF it.size_hint.some THEN <<it.size_hint.val, Some(it.size_hint.val)>> ELSE <<0, None>>

\* Layer::reset_feature_reading
ResetMutant(cur) == cur

ResetFeatureReading(cur) == 0

\* Layer::features
Features(i) ==
    /\ last = Idle
    /\ MutFree
    /\ FreeSlot(i)
    /\ \E rv \in CheapCounts(store, spatial, attr) :
         /\ cursor' = ResetFeatureReading(cursor)
         /\ iters' = [iters EXCEPT ![i] =
                WithLayer("features", rv, usize_max, Visible(store, spatial, attr))]
         /\ last' = [op |-> "features", iter |-> i, pre_cursor |-> cursor]
    /\ UNCHANGED <<store, spatial, attr, schema, flds, fdefns, usize_max, drains>>

\* FeatureIterator::_with_layer called directly
WithLayerDirect(i) ==
    /\ last = Idle
    /\ SharedOk
    /\ FreeSlot(i)
    /\ \E rv \in CheapCounts(store, spatial, attr) :
         /\ iters' = [iters EXCEPT ![i] =
                WithLayer("with_layer", rv, usize_max, Visible(store, spatial, attr))]
         /\ last' = [op |-> "_with_layer", iter |-> i]
    /\ UNCHANGED <<store, spatial, attr, cursor, schema, flds, fdefns, usize_max, drains>>

\* FeatureIterator::next
IterNext(i) ==
    /\ last = Idle
    /\ iters[i] # NoIter
    /\ LET j == NextIndex(store, cursor, spatial, attr)
           it == iters[i]
       IN  IF j = 0
           THEN /\ cursor' = Len(store)
                /\ iters' = [iters EXCEPT ![i].done = TRUE]
                /\ drains' = IF it.kind = "features" /\ ~it.done
                             THEN (IF Len(drains) = 2 THEN <<drains[2], it.yielded>>
                                   ELSE Append(drains, it.yielded))
                             ELSE drains
                /\ last' = [op |-> "next", iter |-> i, res |-> None]
           ELSE /\ cursor' = j
                /\ iters' = [iters EXCEPT ![i].yielded = Append(@, store[j])]
                /\ drains' = drains
                /\ last' = [op |-> "next", iter |-> i, res |-> Some(store[j])]
    /\ UNCHANGED <<store, spatial, attr, schema, flds, fdefns, usize_max>>

\* the FeatureIterator goes out of scope, and its borrow of the Layer ends
DropIter(i) ==
    /\ last = Idle
    /\ iters[i] # NoIter
    /\ iters' = [iters EXCEPT ![i] = NoIter]
    /\ last' = [op |-> "drop_iter", iter |-> i]
    /\ UNCHANGED <<store, spatial, attr, cursor, schema, flds, fdefns, usize_max, drains>>

----------------------------------------------------------------------------
\* Layer: random access and filters

\* Layer::feature, written as a scan of the filtered cursor sequence
FeatureByScan(fid) ==
    /\ last = Idle
    /\ SharedOk
    /\ last' = [op |-> "feature", fid |-> fid,
                res |-> Lookup(Visible(store, spatial, attr), AsI64(fid))]
    /\ UNCHANGED <<store, spatial, attr, cursor, schema, flds, iters, fdefns, usize_max, drains>>

\* Layer::feature
Feature(fid) ==
    /\ last = Idle
    /\ SharedOk
    /\ last' = [op |-> "feature", fid |-> fid, res |-> Lookup(store, AsI64(fid))]
    /\ UNCHANGED <<store, spatial, attr, cursor, schema, flds, iters, fdefns, usize_max, drains>>

\* Layer::set_spatial_filter
SetSpatialFilter(g) ==
    /\ last = Idle
    /\ MutFree
    /\ spatial' = Some(g)
    /\ cursor' \in {cursor, 0}
    /\ last' = [op |-> "set_spatial_filter"]
    /\ UNCHANGED <<store, attr, schema, flds, iters, fdefns, usize_max>>
    /\ KeepDrains

\* Layer::set_spatial_filter_rect
SetSpatialFilterRect(min_x, min_y, max_x, max_y) ==
    /\ last = Idle
    /\ MutFree
    /\ spatial' = Some({c \in Cells : min_x <= c /\ c <= max_x /\ min_y <= 0 /\ 0 <= max_y})
    /\ cursor' \in {cursor, 0}
    /\ last' = [op |-> "set_spatial_filter_rect"]
    /\ UNCHANGED <<store, attr, schema, flds, iters, fdefns, usize_max>>
    /\ KeepDrains

\* Layer::clear_spatial_filter
ClearSpatialFilter ==
    /\ last = Idle
    /\ MutFree
    /\ spatial' = NoFilter
    /\ cursor' \in {cursor, 0}
    /\ last' = [op |-> "clear_spatial_filter"]
    /\ UNCHANGED <<store, attr, schema, flds, iters, fdefns, usize_max>>
    /\ KeepDrains

\* The result of Layer::set_attribute_filter for the engine's status rv
AttributeFilterResult(rv) ==
    IF rv # OGRERR_NONE THEN OgrError(rv, "OGR_L_SetAttributeFilter") ELSE Ok("unit")

\* Layer::set_attribute_filter
SetAttributeFilter(query) ==
    /\ last = Idle
    /\ MutFree
    /\ LET c_str == CStringNew(query)
           pre == [spatial |-> spatial, attr |-> attr, cursor |-> cursor]
       IN  IF IsErr(c_str)
           THEN /\ last' = [op |-> "set_attribute_filter", query |-> query, pre |-> pre,
                            calls |-> <<>>, res |-> c_str]
                /\ UNCHANGED <<attr, cursor>>
           ELSE \E rv \in IF c_str.val \in GoodQueries THEN {OGRERR_NONE} ELSE FailCodes :
                  /\ attr' \in IF rv = OGRERR_NONE THEN {Some(c_str.val)} ELSE {attr, NoFilter}
                  /\ cursor' \in {cursor, 0}
                  /\ last' = [op |-> "set_attribute_filter", query |-> query, pre |-> pre,
                              calls |-> <<[fn |-> "OGR_L_SetAttributeFilter", rv |-> rv]>>,
                              res |-> AttributeFilterResult(rv)]
    /\ UNCHANGED <<store, spatial, schema, flds, iters, fdefns, usize_max>>
    /\ KeepDrains

\* Layer::clear_attribute_filter
ClearAttributeFilter ==
    /\ last = Idle
    /\ MutFree
    /\ attr' = NoFilter
    /\ cursor' \in {cursor, 0}
    /\ last' = [op |-> "clear_attribute_filter"]
    /\ UNCHANGED <<store, spatial, schema, flds, iters, fdefns, usize_max>>
    /\ KeepDrains

----------------------------------------------------------------------------
\* Layer: feature creation

\* Feature::set_field applied to the pairs in order
RECURSIVE SetFields(_, _)
SetFields(fields, pairs) ==
    IF pairs = <<>> THEN fields
    ELSE SetFields([fields EXCEPT ![pairs[1][1]] = Some(pairs[1][2])], Tail(pairs))

\* field_names.iter().zip(values.iter()) that reuses the last value for surplus names
ZipPadding(field_names, values) ==
    IF values = <<>> THEN <<>>
    ELSE [i \in 1..Len(field_names) |->
            <<field_names[i], values[IF i <= Len(values) THEN i ELSE Len(values)]>>]

\* field_names.iter().zip(values.iter())
Zip(field_names, values) ==
    [i \in 1..Min(Len(field_names), Len(values)) |-> <<field_names[i], values[i]>>]

\* Layer::create_feature.  step: 0 every call succeeds, 1 Feature::new fails,
\* 2 the geometry attach fails, 3 the engine rejects the feature; rv is the status
\* of the failing engine call.
CreateFeature(geometry, step, rv) ==
    /\ last = Idle
    /\ MutFree
    /\ Len(store) < MaxFeatures
    /\ LET made == [fn |-> "OGR_F_Create"]
           geom(r) == [fn |-> "OGR_F_SetGeometryDirectly", rv |-> r]
           push(r) == [fn |-> "OGR_L_CreateFeature", rv |-> r]
           pre == store
       IN  \/ /\ step = 1
              /\ last' = [op |-> "create_feature", calls |-> <<made>>, pre_store |-> pre,
                          res |-> NullPointer("OGR_F_Create")]
              /\ store' = store
           \/ /\ step = 2
              /\ last' = [op |-> "create_feature", calls |-> <<made, geom(rv)>>,
                          pre_store |-> pre,
                          res |-> OgrError(rv, "OGR_F_SetGeometryDirectly")]
              /\ store' = store
           \/ /\ step = 3
              /\ last' = [op |-> "create_feature",
                          calls |-> <<made, geom(OGRERR_NONE), push(rv)>>, pre_store |-> pre,
                          res |-> OgrError(rv, "OGR_L_CreateFeature")]
              /\ store' = store
           \/ /\ step = 0
              /\ last' = [op |-> "create_feature",
                          calls |-> <<made, geom(OGRERR_NONE), push(OGRERR_NONE)>>,
                          pre_store |-> pre, res |-> Ok("unit")]
              /\ store' = Append(store, [fid |-> Len(store), geom |-> geometry,
                                         fields |-> NoFields])
    /\ UNCHANGED <<spatial, attr, cursor, schema, flds, iters, fdefns, usize_max>>
    /\ KeepDrains

\* Layer::create_feature_fields, the names and values drawn from NS and VS.
\* step: 0 every call succeeds, 1 Feature::new fails, 2 set_geometry fails, 2+i the
\* i-th set_field fails, k+3 Feature::create fails, for k pairs; rv is the status of
\* a failing engine call.
CreateFeatureFields(NS, VS) ==
    /\ last = Idle
    /\ MutFree
    /\ Len(store) < MaxFeatures
    /\ \E geometry \in Geoms, field_names \in NS, values \in VS :
         LET pairs == Zip(field_names, values)
             k == Len(pairs)
         IN  \E step \in 0..(k + 3), rv \in FailCodes :
               LET nset == IF step = 0 \/ step = k + 3 THEN k
                           ELSE IF step <= 2 THEN 0 ELSE step - 3
                   ft == [fid |-> Len(store), geom |-> geometry,
                          fields |-> SetFields(NoFields, SubSeq(pairs, 1, nset))]
                   res == IF step = 0 THEN Ok("unit")
                          ELSE IF step = 1 THEN NullPointer("OGR_F_Create")
                          ELSE IF step = 2 THEN OgrError(rv, "OGR_F_SetGeometry")
                          ELSE IF step = k + 3 THEN OgrError(rv, "OGR_L_CreateFeature")
                          ELSE [tag |-> "SetFieldError", field |-> pairs[step - 2][1]]
               IN  /\ store' = IF step = 0 THEN Append(store, ft) ELSE store
                   /\ last' = [op |-> "create_feature_fields", geometry |-> geometry,
                               field_names |-> field_names, values |-> values,
                               pre_store |-> store, sets |-> SubSeq(pairs, 1, nset),
                               pushes |-> IF step = 0 \/ step = k + 3 THEN 1 ELSE 0,
                               res |-> res]
    /\ UNCHANGED <<spatial, attr, cursor, schema, flds, iters, fdefns, usize_max>>
    /\ KeepDrains

----------------------------------------------------------------------------
\* Layer: extent

Envelopes == {[MinX |-> a, MaxX |-> b, MinY |-> c, MaxY |-> d] :
                 a \in Cells, b \in Cells, c \in Cells, d \in Cells}

\* what Layer::get_extent returns on the engine's status rv and the envelope it left
GetExtentResult(rv, envelope) ==
    IF rv # OGRERR_NONE THEN OgrError(rv, "OGR_L_GetExtent") ELSE Ok(envelope)

\* try_get_extent that takes every failure for "no extent"
TryGetExtentLenient(rv, envelope) ==
    IF rv # OGRERR_NONE THEN Ok(None) ELSE Ok(Some(envelope))

\* what Layer::try_get_extent returns on the engine's status rv and the envelope it left
TryGetExtentResult(rv, envelope) ==
    IF rv = OGRERR_FAILURE THEN Ok(None)
    ELSE IF rv # OGRERR_NONE THEN OgrError(rv, "OGR_L_GetExtent")
    ELSE Ok(Some(envelope))

\* Layer::get_extent
GetExtent(rv, filled) ==
    /\ last = Idle
    /\ SharedOk
    /\ LET envelope == filled
       IN  last' = [op |-> "get_extent", rv |-> rv, envelope |-> envelope,
                    calls |-> <<[fn |-> "OGR_L_GetExtent", rv |-> rv]>>,
                    res |-> GetExtentResult(rv, envelope)]
    /\ UNCHANGED <<store, spatial, attr, cursor, schema, flds, iters, fdefns, usize_max, drains>>

\* Layer::try_get_extent
TryGetExtent(rv, filled) ==
    /\ last = Idle
    /\ SharedOk
    /\ LET envelope == filled
       IN  last' = [op |-> "try_get_extent", rv |-> rv, envelope |-> envelope,
                    calls |-> <<[fn |-> "OGR_L_GetExtent", rv |-> rv]>>,
                    res |-> TryGetExtentResult(rv, envelope)]
    /\ UNCHANGED <<store, spatial, attr, cursor, schema, flds, iters, fdefns, usize_max, drains>>

----------------------------------------------------------------------------
\* The engine's field descriptors

FreeFld == [state |-> "free", owner |-> "none", name |-> "", ftype |-> "",
            width |-> 0, precision |-> 0, destroys |-> 0]

FreeHandles(heap) == {h \in 1..MaxHandles : heap[h].state = "free"}

\* the handle the engine's next allocation returns
Alloc(heap) == CHOOSE h \in FreeHandles(heap) : \A g \in FreeHandles(heap) : h <= g

\* OGR_Fld_Create
FldCreate(heap, h, name, ftype) ==
    [heap EXCEPT ![h] = [state |-> "alive", owner |-> "wrapper", name |-> name,
                         ftype |-> ftype, width |-> 0, precision |-> 0, destroys |-> 0]]

\* OGR_Fld_Destroy
FldDestroy(heap, h) ==
    [heap EXCEPT ![h] = [FreeFld EXCEPT !.state = "destroyed", !.owner = heap[h].owner,
                                        !.destroys = heap[h].destroys + 1]]

\* OGR_L_CreateField: the layer's schema takes a copy h2 of the descriptor h
LayerCreateField(heap, h2, h) ==
    [heap EXCEPT ![h2] = [heap[h] EXCEPT !.owner = "schema"]]

\* Layer::from_c_layer: the wrapper keeps the handle of the layer's definition
Layer == [c_layer |-> "c_layer", defn |-> [c_defn |-> "OGR_L_GetLayerDefn(c_layer)"]]

\* Defn::fields read through Layer::defn: the (name, type) of the layer definition's fields
DefnFields(defn, sch, heap) ==
    [i \in 1..Len(sch) |-> <<heap[sch[i]].name, heap[sch[i]].ftype>>]

----------------------------------------------------------------------------
\* FieldDefn

NoFieldDefn == [c_obj |-> 0]
FieldTypes == {"OFTInteger", "OFTString"}
DefnNames == {"a", "b", "n<NUL>m"}
FieldLists == SeqsUpTo(DefnNames \X FieldTypes, MaxList)

\* a destructor that leaves a descriptor alone once it was attached to a layer
DropUnlessAttached(heap, w) == IF w.adds > 0 THEN heap ELSE FldDestroy(heap, w.c_obj)

\* Drop for FieldDefn
Drop(heap, w) == FldDestroy(heap, w.c_obj)

\* what FieldDefn::add_to_layer returns on the engine's status rv
AddToLayerResult(rv) ==
    IF rv # OGRERR_NONE THEN OgrError(rv, "OGR_L_CreateFeature") ELSE Ok("unit")

\* FieldDefn::new.  made: whether OGR_Fld_Create returns a descriptor
FieldDefnNew(s, name, field_type, made) ==
    /\ last = Idle
    /\ FreeFieldDefnSlot(s)
    /\ FreeHandles(flds) # {}
    /\ LET c_str == CStringNew(name)
           h == Alloc(flds)
       IN  IF IsErr(c_str)
           THEN /\ last' = [op |-> "FieldDefn::new", name |-> name, calls |-> <<>>,
                            res |-> c_str]
                /\ UNCHANGED <<flds, fdefns>>
           ELSE IF ~made
           THEN /\ last' = [op |-> "FieldDefn::new", name |-> name,
                            calls |-> <<[fn |-> "OGR_Fld_Create"]>>,
                            res |-> NullPointer("OGR_Fld_Create")]
                /\ UNCHANGED <<flds, fdefns>>
           ELSE /\ flds' = FldCreate(flds, h, c_str.val, field_type)
                /\ fdefns' = [fdefns EXCEPT ![s] =
                                 [c_obj |-> h, dropped |-> FALSE, adds |-> 0]]
                /\ last' = [op |-> "FieldDefn::new", name |-> name,
                            calls |-> <<[fn |-> "OGR_Fld_Create"]>>, res |-> Ok(s)]
    /\ UNCHANGED <<store, spatial, attr, cursor, schema, iters, usize_max, drains>>

UsableFieldDefn(s) == fdefns[s].c_obj # 0 /\ ~fdefns[s].dropped

\* FieldDefn::set_width
SetWidth(s, width) ==
    /\ last = Idle
    /\ UsableFieldDefn(s)
    /\ flds' = [flds EXCEPT ![fdefns[s].c_obj].width = width]
    /\ last' = [op |-> "set_width", fdefn |-> s]
    /\ UNCHANGED <<store, spatial, attr, cursor, schema, iters, fdefns, usize_max, drains>>

\* FieldDefn::set_precision
SetPrecision(s, precision) ==
    /\ last = Idle
    /\ UsableFieldDefn(s)
    /\ flds' = [flds EXCEPT ![fdefns[s].c_obj].precision = precision]
    /\ last' = [op |-> "set_precision", fdefn |-> s]
    /\ UNCHANGED <<store, spatial, attr, cursor, schema, iters, fdefns, usize_max, drains>>

\* FieldDefn::add_to_layer
AddToLayer(s, rv) ==
    /\ last = Idle
    /\ UsableFieldDefn(s)
    /\ SharedOk
    /\ rv = OGRERR_NONE => FreeHandles(flds) # {} /\ Len(schema) < MaxAttached
    /\ IF rv = OGRERR_NONE
       THEN /\ flds' = LayerCreateField(flds, Alloc(flds), fdefns[s].c_obj)
            /\ schema' = Append(schema, Alloc(flds))
            /\ fdefns' = [fdefns EXCEPT ![s].adds = @ + 1]
       ELSE UNCHANGED <<flds, schema, fdefns>>
    /\ last' = [op |-> "add_to_layer", fdefn |-> s, pre_schema |-> schema,
                calls |-> <<[fn |-> "OGR_L_CreateField", rv |-> rv]>>,
                res |-> AddToLayerResult(rv)]
    /\ UNCHANGED <<store, spatial, attr, cursor, iters, usize_max, drains>>

\* the FieldDefn goes out of scope
DropFieldDefn(s) ==
    /\ last = Idle
    /\ UsableFieldDefn(s)
    /\ flds' = Drop(flds, fdefns[s])
    /\ fdefns' = [fdefns EXCEPT ![s].dropped = TRUE]
    /\ last' = [op |-> "drop_fdefn", fdefn |-> s]
    /\ UNCHANGED <<store, spatial, attr, cursor, schema, iters, usize_max, drains>>

----------------------------------------------------------------------------
\* Layer::create_defn_fields

\* ds[i] is what the engine does with the i-th field: 0 accepts it, -1 returns no
\* descriptor from OGR_Fld_Create, any other value is the status of OGR_L_CreateField.
\* The loop from field i on; the result is the schema, the heap, the engine calls,
\* the number of fields attempted and what the method returns.

\* the loop with a failing field skipped instead of returned
RECURSIVE DefnFieldsLoopSkipping(_, _, _, _, _, _)
DefnFieldsLoopSkipping(fields_def, ds, i, sch, heap, calls) ==
    IF i > Len(fields_def)
    THEN [schema |-> sch, flds |-> heap, calls |-> calls, attempted |-> i - 1,
          res |-> Ok("unit")]
    ELSE LET c_str == CStringNew(fields_def[i][1])
             h == Alloc(heap)
             heap1 == FldCreate(heap, h, fields_def[i][1], fields_def[i][2])
             fdefn == [c_obj |-> h, dropped |-> FALSE, adds |-> 0]
             h2 == Alloc(heap1)
         IN  IF IsErr(c_str) \/ ds[i] = -1
             THEN DefnFieldsLoopSkipping(fields_def, ds, i + 1, sch, heap, calls)
             ELSE IF ds[i] # OGRERR_NONE
             THEN DefnFieldsLoopSkipping(fields_def, ds, i + 1, sch, Drop(heap1, fdefn),
                     calls \o <<[fn |-> "OGR_Fld_Create"],
                                [fn |-> "OGR_L_CreateField", rv |-> ds[i]]>>)
             ELSE DefnFieldsLoopSkipping(fields_def, ds, i + 1, Append(sch, h2),
                     Drop(LayerCreateField(heap1, h2, h), [fdefn EXCEPT !.adds = 1]),
                     calls \o <<[fn |-> "OGR_Fld_Create"],
                                [fn |-> "OGR_L_CreateField", rv |-> ds[i]]>>)

RECURSIVE DefnFieldsLoop(_, _, _, _, _, _)
DefnFieldsLoop(fields_def, ds, i, sch, heap, calls) ==
    IF i > Len(fields_def)
    THEN [schema |-> sch, flds |-> heap, calls |-> calls, attempted |-> i - 1,
          res |-> Ok("unit")]
    ELSE LET c_str == CStringNew(fields_def[i][1])
             h == Alloc(heap)
             heap1 == FldCreate(heap, h, fields_def[i][1], fields_def[i][2])
             fdefn == [c_obj |-> h, dropped |-> FALSE, adds |-> 0]
             h2 == Alloc(heap1)
         IN  IF IsErr(c_str)
             THEN [schema |-> sch, flds |-> heap, calls |-> calls, attempted |-> i,
                   res |-> c_str]
             ELSE IF ds[i] = -1
             THEN [schema |-> sch, flds |-> heap,
                   calls |-> Append(calls, [fn |-> "OGR_Fld_Create"]), attempted |-> i,
                   res |-> NullPointer("OGR_Fld_Create")]
             ELSE IF ds[i] # OGRERR_NONE
             THEN [schema |-> sch, flds |-> Drop(heap1, fdefn),
                   calls |-> calls \o <<[fn |-> "OGR_Fld_Create"],
                                        [fn |-> "OGR_L_CreateField", rv |-> ds[i]]>>,
                   attempted |-> i, res |-> AddToLayerResult(ds[i])]
             ELSE DefnFieldsLoop(fields_def, ds, i + 1, Append(sch, h2),
                     Drop(LayerCreateField(heap1, h2, h), [fdefn EXCEPT !.adds = 1]),
                     calls \o <<[fn |-> "OGR_Fld_Create"],
                                [fn |-> "OGR_L_CreateField", rv |-> ds[i]]>>)

\* Layer::create_defn_fields
CreateDefnFields ==
    /\ last = Idle
    /\ SharedOk
    /\ \E fields_def \in FieldLists :
         /\ Cardinality(FreeHandles(flds)) >= 2 * Len(fields_def)
         /\ \E ds \in [1..Len(fields_def) -> {-1, OGRERR_NONE, OGRERR_FAILURE}] :
              LET out == DefnFieldsLoop(fields_def, ds, 1, schema, flds, <<>>)
              IN  /\ schema' = out.schema
                  /\ flds' = out.flds
                  /\ last' = [op |-> "create_defn_fields", fields_def |-> fields_def,
                              ds |-> ds,
                              pre_schema |-> DefnFields(Layer.defn, schema, flds),
                              calls |-> out.calls, attempted |-> out.attempted,
                              res |-> out.res]
    /\ UNCHANGED <<store, spatial, attr, cursor, iters, fdefns, usize_max, drains>>

----------------------------------------------------------------------------
\* Specifications

\* a Layer just built by from_c_layer on a new, empty layer of a dataset
Init ==
    /\ store = <<>>
    /\ spatial = NoFilter
    /\ attr = NoFilter
    /\ cursor = 0
    /\ schema = <<>>
    /\ flds = [h \in 1..MaxHandles |-> FreeFld]
    /\ iters = [i \in 1..MaxIters |-> NoIter]
    /\ fdefns = [s \in 1..MaxFieldDefns |-> NoFieldDefn]
    /\ usize_max \in {TwoPow32 - 1, 2 * TwoPow63 - 1}
    /\ drains = <<>>
    /\ last = Idle

Fids == 0..(2 * TwoPow63 - 1)

\* the caller is done with what the last operation returned
Return ==
    /\ last # Idle
    /\ last' = Idle
    /\ UNCHANGED <<store, spatial, attr, cursor, schema, flds, iters, fdefns, usize_max, drains>>

\* reading through features(): the cursor, the filters, random access
Next ==
    \/ \E i \in 1..MaxIters : Features(i)
    \/ \E i \in 1..MaxIters : IterNext(i)
    \/ \E i \in 1..MaxIters : DropIter(i)
    \/ \E fid \in Fids : Feature(fid)
    \/ \E g \in Regions : SetSpatialFilter(g)
    \/ \E a \in Cells, b \in Cells, c \in {0, 1} : SetSpatialFilterRect(a, -c, b, c)
    \/ ClearSpatialFilter
    \/ \E q \in Queries : SetAttributeFilter(q)
    \/ ClearAttributeFilter
    \/ \E g \in Geoms, step \in 0..3, rv \in FailCodes : CreateFeature(g, step, rv)
    \/ CreateFeatureFields({<<"a">>}, {<<1>>})
    \/ Return

Spec == Init /\ [][Next]_vars

\* iterators built by features() and by FeatureIterator::_with_layer side by side
NextShared ==
    \/ \E i \in 1..MaxIters : Features(i)
    \/ \E i \in 1..MaxIters : WithLayerDirect(i)
    \/ \E i \in 1..MaxIters : IterNext(i)
    \/ \E i \in 1..MaxIters : DropIter(i)
    \/ \E g \in Regions : SetSpatialFilter(g)
    \/ ClearSpatialFilter
    \/ \E g \in Geoms : CreateFeature(g, 0, OGRERR_NONE)
    \/ Return

SpecShared == Init /\ [][NextShared]_vars

\* writing features
NextWrite ==
    \/ \E g \in Geoms, step \in 0..3, rv \in FailCodes : CreateFeature(g, step, rv)
    \/ CreateFeatureFields(NameLists, ValueLists)
    \/ Return

SpecWrite == Init /\ [][NextWrite]_vars

\* asking for the extent
NextExtent ==
    \/ \E rv \in OGRErrCodes, e \in Envelopes : GetExtent(rv, e)
    \/ \E rv \in OGRErrCodes, e \in Envelopes : TryGetExtent(rv, e)
    \/ Return

SpecExtent == Init /\ [][NextExtent]_vars

\* field descriptors: built, changed, attached to the layer, dropped
NextFieldDefn ==
    \/ \E s \in 1..MaxFieldDefns, n \in {"a", "n<NUL>m"}, made \in BOOLEAN :
          FieldDefnNew(s, n, "OFTInteger", made)
    \/ \E s \in 1..MaxFieldDefns : SetWidth(s, 10)
    \/ \E s \in 1..MaxFieldDefns : SetPrecision(s, 10)
    \/ \E s \in 1..MaxFieldDefns, rv \in {OGRERR_NONE} \cup FailCodes : AddToLayer(s, rv)
    \/ \E s \in 1..MaxFieldDefns : DropFieldDefn(s)
    \/ Return

SpecFieldDefn == Init /\ [][NextFieldDefn]_vars

\* the layer's schema built by create_defn_fields
NextSchema ==
    \/ CreateDefnFields
    \/ Return

SpecSchema == Init /\ [][NextSchema]_vars

----------------------------------------------------------------------------
\* Properties

Max(S) == CHOOSE x \in S : \A y \in S : y <= x
IsPrefix(a, b) == Len(a) <= Len(b) /\ a = SubSeq(b, 1, Len(a))

\* C1: every features() call leaves the cursor at the start and the new iterator
\* with nothing yielded, whatever the cursor was before; and two drains of
\* features() with no change of the store or the filters in between yield the same
\* sequence of features.
C1_FeaturesResetsCursor ==
    /\ last.op = "features" => cursor = 0 /\ iters[last.iter].yielded = <<>>
    /\ Len(drains) = 2 => drains[1] = drains[2]

\* two complete, non-empty drains in a row: the second features() call found the
\* cursor at the end of the layer
C1_Witness == Len(drains) = 2 /\ drains[2] # <<>>

\* C2: feature(id) returns the stored feature with that id, or nothing when there
\* is none, under every state of the two filters; an iterator from features() yields
\* the stored features that passed the filters installed when features() was
\* called, in order, and all of them once it is drained.
C2_FeatureIgnoresFilters ==
    /\ last.op = "feature" =>
          LET hit == {j \in 1..Len(store) : store[j].fid = last.fid}
          IN  /\ hit = {} => last.res = None
              /\ \A j \in hit : last.res = Some(store[j])
    /\ \A i \in Live : iters[i].kind = "features" =>
          /\ IsPrefix(iters[i].yielded, iters[i].expect)
          /\ iters[i].done => iters[i].yielded = iters[i].expect

\* feature(id) has returned a feature that the installed filters exclude, after a
\* drain of features() under the same filters left a stored feature out
C2_Witness ==
    /\ last.op = "feature"
    /\ last.res.some
    /\ ~Passes(last.res.val, spatial, attr)
    /\ drains # <<>>
    /\ Len(drains[1]) < Len(store)

\* C3: at most one FeatureIterator is alive per Layer, whether it was started by
\* features() or by FeatureIterator::_with_layer, and no filter change or feature
\* creation happens while one is alive.
C3_AtMostOneLiveIterator ==
    /\ Cardinality(Live) <= 1
    /\ last.op \in {"set_spatial_filter", "set_spatial_filter_rect", "clear_spatial_filter",
                    "set_attribute_filter", "clear_attribute_filter", "create_feature",
                    "create_feature_fields"} => Live = {}

\* C4: try_get_extent maps success to Ok(Some(envelope)), OGRERR_FAILURE to
\* Ok(None) and every other status to Err with that status, and returns Ok(None)
\* for OGRERR_FAILURE only; get_extent returns Ok(envelope) on success and Err with
\* the status on every other status, OGRERR_FAILURE included.
C4_ExtentOutcomes ==
    /\ last.op = "try_get_extent" =>
          /\ last.rv = OGRERR_NONE => last.res = Ok(Some(last.envelope))
          /\ last.rv = OGRERR_FAILURE => last.res = Ok(None)
          /\ last.rv \notin {OGRERR_NONE, OGRERR_FAILURE} =>
                last.res.tag = "OgrError" /\ last.res.err = last.rv
          /\ last.res = Ok(None) => last.rv = OGRERR_FAILURE
    /\ last.op = "get_extent" =>
          /\ last.rv = OGRERR_NONE => last.res = Ok(last.envelope)
          /\ last.rv # OGRERR_NONE => last.res.tag = "OgrError" /\ last.res.err = last.rv

\* try_get_extent has returned an error for a status that is neither success nor
\* OGRERR_FAILURE
C4_Witness ==
    /\ last.op = "try_get_extent"
    /\ last.rv \notin {OGRERR_NONE, OGRERR_FAILURE}
    /\ last.res.tag = "OgrError"

\* C5: the descriptor of every FieldDefn is destroyed exactly once, when the
\* FieldDefn is dropped and not before, however often it was changed or attached;
\* the copies the layer's schema holds are never destroyed by a wrapper.
C5_DestroyedOnceAtDrop ==
    /\ \A s \in 1..MaxFieldDefns : fdefns[s].c_obj # 0 =>
          LET d == flds[fdefns[s].c_obj]
          IN  /\ d.owner = "wrapper"
              /\ d.destroys = IF fdefns[s].dropped THEN 1 ELSE 0
              /\ d.state = IF fdefns[s].dropped THEN "destroyed" ELSE "alive"
    /\ \A s, t \in 1..MaxFieldDefns :
          fdefns[s].c_obj # 0 /\ fdefns[s].c_obj = fdefns[t].c_obj => s = t
    /\ \A i \in 1..Len(schema) :
          LET d == flds[schema[i]]
          IN  d.owner = "schema" /\ d.state = "alive" /\ d.destroys = 0

\* a FieldDefn attached twice to the layer has been dropped
C5_Witness ==
    \E s \in 1..MaxFieldDefns :
        /\ fdefns[s].c_obj # 0
        /\ fdefns[s].dropped
        /\ fdefns[s].adds >= 2
        /\ Len(schema) >= 2

\* C6 as stated: a failed set_attribute_filter leaves the attribute filter and the
\* spatial filter as they were, and makes no engine call when the query holds a NUL.
C6_FailedFilterChangesNothing ==
    last.op = "set_attribute_filter" /\ IsErr(last.res) =>
        /\ attr = last.pre.attr
        /\ spatial = last.pre.spatial
        /\ HasNul(last.query) => last.calls = <<>>

\* C6 amended: a query with an embedded NUL is refused before any engine call, and
\* the filters and the cursor stay as they were; when the engine rejects the query
\* the method returns the engine's status, the spatial filter stays as it was, and
\* the attribute filter is the previous one or none: the rejected query is never
\* installed, and the wrapper restores nothing.
C6_FailedFilterAmended ==
    last.op = "set_attribute_filter" =>
        /\ HasNul(last.query) =>
              /\ last.res = FfiNulError
              /\ last.calls = <<>>
              /\ attr = last.pre.attr
              /\ spatial = last.pre.spatial
              /\ cursor = last.pre.cursor
        /\ last.res.tag = "OgrError" =>
              /\ Len(last.calls) = 1
              /\ last.res.err = last.calls[1].rv
              /\ last.res.err # OGRERR_NONE
              /\ spatial = last.pre.spatial
              /\ attr = last.pre.attr \/ attr = NoFilter
        /\ IsErr(last.res) <=> last.query \notin GoodQueries

\* a query with an embedded NUL has been refused while an attribute filter was
\* installed
C6_Witness ==
    /\ last.op = "set_attribute_filter"
    /\ HasNul(last.query)
    /\ last.pre.attr # NoFilter
    /\ last.pre.spatial # NoFilter

\* C7: create_defn_fields attaches the fields in list order up to the first one
\* that cannot be built or attached, returns that field's error, attempts no later
\* field and keeps the earlier ones; when all succeed, defn() reports the prior
\* fields followed by the new ones with their names and types, in list order.
C7_DefnFieldsInOrder ==
    last.op = "create_defn_fields" =>
        LET fl == last.fields_def
            bad == {i \in 1..Len(fl) : HasNul(fl[i][1]) \/ last.ds[i] # OGRERR_NONE}
            k == IF bad = {} THEN 0 ELSE CHOOSE i \in bad : \A j \in bad : i <= j
            n == IF k = 0 THEN Len(fl) ELSE k - 1
        IN  /\ DefnFields(Layer.defn, schema, flds) = last.pre_schema \o SubSeq(fl, 1, n)
            /\ k = 0 => last.res = Ok("unit") /\ last.attempted = Len(fl)
            /\ k # 0 =>
                  /\ last.attempted = k
                  /\ IF HasNul(fl[k][1]) THEN last.res = FfiNulError
                     ELSE IF last.ds[k] = -1 THEN last.res.tag = "NullPointer"
                     ELSE last.res.tag = "OgrError" /\ last.res.err = last.ds[k]

\* on a layer that had a field already, the second of two fields failed and the
\* first stayed attached
C7_Witness ==
    /\ last.op = "create_defn_fields"
    /\ Len(last.fields_def) = 2
    /\ last.attempted = 2
    /\ IsErr(last.res)
    /\ Len(last.pre_schema) >= 1
    /\ Len(schema) = Len(last.pre_schema) + 1

\* C8: create_feature_fields sets the first min(m, n) name/value pairs by position
\* and in order, and no other; the feature is pushed at most once, after the
\* geometry and all the pairs were set; on an error the layer's features are as
\* before, on success there is one more feature, with that geometry and those
\* field values.
C8_CreateFeatureFieldsZips ==
    last.op = "create_feature_fields" =>
        LET ns == last.field_names
            vs == last.values
            k == Min(Len(ns), Len(vs))
            want == [nm \in FieldNames |->
                        LET idx == {i \in 1..k : ns[i] = nm}
                        IN  IF idx = {} THEN None ELSE Some(vs[Max(idx)])]
        IN  /\ Len(last.sets) <= k
            /\ \A i \in 1..Len(last.sets) : last.sets[i] = <<ns[i], vs[i]>>
            /\ last.pushes <= 1
            /\ last.pushes = 1 => Len(last.sets) = k
            /\ IsErr(last.res) => store = last.pre_store
            /\ ~IsErr(last.res) =>
                  /\ Len(last.sets) = k
                  /\ last.pushes = 1
                  /\ Len(store) = Len(last.pre_store) + 1
                  /\ SubSeq(store, 1, Len(last.pre_store)) = last.pre_store
                  /\ store[Len(store)].geom = last.geometry
                  /\ store[Len(store)].fields = want

\* a feature has been created from two names and one value
C8_Witness ==
    /\ last.op = "create_feature_fields"
    /\ ~IsErr(last.res)
    /\ Len(last.field_names) = 2
    /\ Len(last.values) = 1
    /\ Len(store) = Len(last.pre_store) + 1

\* C9 as stated: the size hint is present exactly when the engine's cheap count is
\* not negative, and then it is (n, Some(n)) with n that count, else (0, None).
C9_HintIffCountAvailable ==
    \A i \in Live :
        SizeHint(iters[i]) = IF iters[i].count >= 0
                             THEN <<iters[i].count, Some(iters[i].count)>>
                             ELSE <<0, None>>

\* C9 amended: the size hint is present exactly when the engine's cheap count is
\* not negative and fits in usize; then size_hint() is (n, Some(n)) with n that
\* count, else (0, None); it is the same after any number of next() calls.
C9_HintIffCountFits ==
    \A i \in Live :
        SizeHint(iters[i]) = IF iters[i].count >= 0 /\ iters[i].count <= usize_max
                             THEN <<iters[i].count, Some(iters[i].count)>>
                             ELSE <<0, None>>

\* an iterator that has yielded a feature still reports the count it was built with
C9_Witness ==
    \E i \in Live :
        /\ iters[i].yielded # <<>>
        /\ iters[i].count >= 1
        /\ SizeHint(iters[i]) = <<iters[i].count, Some(iters[i].count)>>

\* C10: an engine failure returned by create_feature, get_extent, try_get_extent,
\* set_attribute_filter, add_to_layer (and create_defn_fields through it) carries
\* the status and the name of the engine call that failed, the last one made.
C10_ErrorNamesFailedCall ==
    /\ last.op \in {"create_feature", "get_extent", "try_get_extent",
                    "set_attribute_filter", "add_to_layer", "create_defn_fields"}
    /\ last.res.tag = "OgrError"
    => /\ last.calls # <<>>
       /\ last.res.method_name = last.calls[Len(last.calls)].fn
       /\ last.res.err = last.calls[Len(last.calls)].rv
       /\ last.res.err # OGRERR_NONE

====
